---------------------------- MODULE Spec2Model ----------------------------
(***************************************************************************)
(* Shot planner (app.py): the flight simulator try_shot, the angular-speed *)
(* space solver get_ang_speed_space and the heat map generate_heatmap.     *)
(*                                                                         *)
(* Floating point values are modelled in fixed point:                      *)
(*   lengths mm, velocities mm/s, accelerations mm/s^2, time ms,           *)
(*   angles 1e-4 rad internally and millidegrees where the code uses       *)
(*   degrees, speeds of the required-speed model cm/s.                     *)
(* Divisions truncate towards zero.  NaN and Inf are sentinel values.      *)
(* tan, cos and arctan are tabulated every 0.01 and interpolated.          *)
(* solve_ivp is a fixed-step explicit integrator with linear dense output, *)
(* fsolve a search for the sign change next to the seed, quad a midpoint   *)
(* rule.                                                                   *)
(***************************************************************************)
EXTENDS Integers, Sequences, FiniteSets, TLC

VARIABLES
    \* try_shot / solve_ivp
    s0,        \* the initial state <<x, vx, y, vy>> handed to try_shot
    h,         \* the step size the adaptive solver uses in this run (<= max_step)
    t,         \* solver time of the last recorded sample
    s,         \* solver state at time t
    sol,       \* solution.y: the recorded samples, in order
    pc,        \* "idle", "running", "done" (try_shot returned) or "hung" (solver never returns)
    stop,      \* what ended the integration
    ret,       \* the dictionary try_shot returns
    \* get_ang_speed_space behind /api/calculate_ang_speed
    ang_pc,    \* "idle", "called" or "returned"
    ang_req,   \* <<xpos, ypos>> of the last request
    ang_locals, \* the local variables of get_ang_speed_space
    ang_ret,   \* the dictionary get_ang_speed_space returns
    \* generate_heatmap
    heat_pc,   \* "idle", "loop" or "returned"
    xi,        \* index of the outer loop, from 0
    yi,        \* index of the inner loop, from 0
    row,       \* the row being filled
    area_grid, \* the rows appended so far
    written    \* history: the <<xi, yi>> of every row.append, in order

shot_vars == <<s0, h, t, s, sol, pc, stop, ret>>

ang_vars == <<ang_pc, ang_req, ang_locals, ang_ret>>

heat_vars == <<heat_pc, xi, yi, row, area_grid, written>>

vars == <<shot_vars, ang_vars, heat_vars>>

---------------------------------------------------------------------------
(* Arithmetic helpers *)

Abs(a) == IF a < 0 THEN -a ELSE a

Min(a, b) == IF a <= b THEN a ELSE b

Max(a, b) == IF a >= b THEN a ELSE b

\* float division, truncated towards zero
TDiv(a, b) ==
    IF (a >= 0) = (b > 0) THEN Abs(a) \div Abs(b) ELSE -(Abs(a) \div Abs(b))

RECURSIVE SqrtSearch(_, _, _)
SqrtSearch(n, lo, hi) ==
    IF lo >= hi THEN lo
    ELSE LET mid == (lo + hi + 1) \div 2
         IN  IF mid * mid <= n THEN SqrtSearch(n, mid, hi)
             ELSE SqrtSearch(n, lo, mid - 1)

\* numpy sqrt of a non-negative value
ISqrt(n) == SqrtSearch(n, 0, 46340)

\* numpy nan (the result of 0/0, inf - inf and sqrt of a negative value)
NaN == -2000000001

\* numpy inf and -inf (the result of x/0 and of overflow)
PosInf == 2000000000

NegInf == -2000000000

\* the largest magnitude a finite value takes; beyond it a result overflows
Big == 1000000000

IsFinite(v) == v # NaN /\ v # PosInf /\ v # NegInf

\* one digit d < 2^10 of the long multiplication of a by b, divided by c:
\* qr is <<quotient, remainder>> for the digits taken so far; the quotient is
\* PosInf once it exceeds Big
MulDivDigit(qr, a, d, c) ==
    LET n == qr[2] * 1024 + (a % c) * d
    IN  IF qr[1] > Big \div 1024 THEN <<PosInf, 0>>
        ELSE IF d > 0 /\ a \div c > Big \div d THEN <<PosInf, 0>>
        ELSE IF qr[1] * 1024 + (a \div c) * d + n \div c > Big THEN <<PosInf, 0>>
        ELSE <<qr[1] * 1024 + (a \div c) * d + n \div c, n % c>>

\* the quotient of a * b by c for 0 <= a, b <= Big and 0 < c <= 2^20, the
\* product taken in double width
MulDivWide(a, b, c) ==
    MulDivDigit(MulDivDigit(MulDivDigit(<<0, 0>>, a, b \div 1048576, c),
                            a, (b \div 1024) % 1024, c),
                a, b % 1024, c)[1]

\* float a * b / c, for b and c finite and c # 0
MulDiv(a, b, c) ==
    IF a = NaN THEN NaN
    ELSE IF b = 0 THEN (IF IsFinite(a) THEN 0 ELSE NaN)
    ELSE LET neg == ((a < 0) # (b < 0)) # (c < 0)
         IN  IF ~IsFinite(a) THEN (IF neg THEN NegInf ELSE PosInf)
             ELSE LET q == IF Abs(a) <= Big \div Abs(b)
                           THEN (Abs(a) * Abs(b)) \div Abs(c)
                           ELSE MulDivWide(Abs(a), Abs(b), Abs(c))
                  IN  IF q > Big THEN (IF neg THEN NegInf ELSE PosInf)
                      ELSE IF neg THEN -q ELSE q

\* float a - b
FSub(a, b) ==
    IF a = NaN \/ b = NaN THEN NaN
    ELSE IF a = PosInf THEN (IF b = PosInf THEN NaN ELSE PosInf)
    ELSE IF a = NegInf THEN (IF b = NegInf THEN NaN ELSE NegInf)
    ELSE IF b = PosInf THEN NegInf
    ELSE IF b = NegInf THEN PosInf
    ELSE IF a - b > Big THEN PosInf
    ELSE IF a - b < -Big THEN NegInf
    ELSE a - b

FNeg(a) ==
    IF a = NaN THEN NaN
    ELSE IF a = PosInf THEN NegInf
    ELSE IF a = NegInf THEN PosInf
    ELSE -a

\* float a + b
FAdd(a, b) == FSub(a, FNeg(b))

\* numpy sqrt
FSqrt(v) ==
    IF v = NaN \/ v < 0 THEN NaN
    ELSE IF v = PosInf THEN PosInf
    ELSE ISqrt(v)

\* numpy tan at 0, 0.01, ..., 1.56 rad, in 1e-4
TanTab ==
    << 0, 100, 200, 300, 400, 500, 601, 701, 802, 902, 1003, 1104, 1206,
       1307, 1409, 1511, 1614, 1717, 1820, 1923, 2027, 2131, 2236, 2341,
       2447, 2553, 2660, 2768, 2876, 2984, 3093, 3203, 3314, 3425, 3537,
       3650, 3764, 3879, 3994, 4111, 4228, 4346, 4466, 4586, 4708, 4831,
       4954, 5080, 5206, 5334, 5463, 5594, 5726, 5859, 5994, 6131, 6269,
       6410, 6552, 6696, 6841, 6989, 7139, 7291, 7445, 7602, 7761, 7923,
       8087, 8253, 8423, 8595, 8771, 8949, 9131, 9316, 9505, 9697, 9893,
       10092, 10296, 10505, 10717, 10934, 11156, 11383, 11616, 11853, 12097,
       12346, 12602, 12864, 13133, 13409, 13692, 13984, 14284, 14592, 14910,
       15237, 15574, 15922, 16281, 16652, 17036, 17433, 17844, 18270, 18712,
       19171, 19648, 20143, 20660, 21198, 21759, 22345, 22958, 23600, 24273,
       24979, 25722, 26503, 27328, 28198, 29119, 30096, 31133, 32236, 33413,
       34672, 36021, 37471, 39033, 40723, 42556, 44552, 46734, 49131, 51774,
       54707, 57979, 61654, 65811, 70555, 76018, 82381, 89886, 98874, 109834,
       123499, 141014, 164281, 196695, 244984, 324611, 480785, 926205 >>

\* numpy cos at 0, 0.01, ..., 1.56 rad, in 1e-5
CosTab ==
    << 100000, 99995, 99980, 99955, 99920, 99875, 99820, 99755, 99680, 99595,
       99500, 99396, 99281, 99156, 99022, 98877, 98723, 98558, 98384, 98200,
       98007, 97803, 97590, 97367, 97134, 96891, 96639, 96377, 96106, 95824,
       95534, 95233, 94924, 94604, 94275, 93937, 93590, 93233, 92866, 92491,
       92106, 91712, 91309, 90897, 90475, 90045, 89605, 89157, 88699, 88233,
       87758, 87274, 86782, 86281, 85771, 85252, 84726, 84190, 83646, 83094,
       82534, 81965, 81388, 80803, 80210, 79608, 78999, 78382, 77757, 77125,
       76484, 75836, 75181, 74517, 73847, 73169, 72484, 71791, 71091, 70385,
       69671, 68950, 68222, 67488, 66746, 65998, 65244, 64483, 63715, 62941,
       62161, 61375, 60582, 59783, 58979, 58168, 57352, 56530, 55702, 54869,
       54030, 53186, 52337, 51482, 50622, 49757, 48887, 48012, 47133, 46249,
       45360, 44466, 43568, 42666, 41759, 40849, 39934, 39015, 38092, 37166,
       36236, 35302, 34365, 33424, 32480, 31532, 30582, 29628, 28672, 27712,
       26750, 25785, 24818, 23848, 22875, 21901, 20924, 19945, 18964, 17981,
       16997, 16010, 15023, 14033, 13042, 12050, 11057, 10063, 9067, 8071,
       7074, 6076, 5077, 4079, 3079, 2079, 1080 >>

\* numpy arctan at 0, 0.01, ..., 1.00, in 1e-4 rad
ArctanTab ==
    << 0, 100, 200, 300, 400, 500, 599, 699, 798, 898, 997, 1096, 1194, 1293,
       1391, 1489, 1587, 1684, 1781, 1878, 1974, 2070, 2166, 2261, 2355,
       2450, 2544, 2637, 2730, 2823, 2915, 3006, 3097, 3187, 3277, 3367,
       3456, 3544, 3631, 3719, 3805, 3891, 3976, 4061, 4145, 4229, 4311,
       4394, 4475, 4556, 4636, 4716, 4795, 4874, 4951, 5028, 5105, 5181,
       5256, 5330, 5404, 5477, 5550, 5622, 5693, 5764, 5834, 5903, 5972,
       6040, 6107, 6174, 6240, 6306, 6371, 6435, 6499, 6562, 6624, 6686,
       6747, 6808, 6868, 6928, 6987, 7045, 7103, 7160, 7217, 7273, 7328,
       7383, 7438, 7491, 7545, 7598, 7650, 7702, 7753, 7804, 7854 >>

\* the trigonometric tables reach 1.56 rad
MaxAngle == 100 * (Len(TanTab) - 1)

\* linear interpolation in a table with one entry per step
Interpolate(tab, a, step) ==
    LET k == a \div step
        fr == a % step
    IN  IF fr = 0 THEN tab[k + 1]
        ELSE tab[k + 1] + TDiv((tab[k + 2] - tab[k + 1]) * fr, step)

\* numpy tan, cos of an angle in 1e-4 rad
Tan(a) == IF a >= 0 THEN Interpolate(TanTab, a, 100) ELSE -Interpolate(TanTab, -a, 100)

Cos(a) == Interpolate(CosTab, Abs(a), 100)

\* numpy arctan2(y, x) for y > 0 and x >= 0, in 1e-4 rad
Arctan2(y, x) ==
    IF x = 0 THEN 15708
    ELSE IF y <= x THEN Interpolate(ArctanTab, TDiv(y * 10000, x), 100)
    ELSE 15708 - Interpolate(ArctanTab, TDiv(x * 10000, y), 100)

\* numpy radians of millidegrees, and degrees in millidegrees
Radians(mdeg) == TDiv(mdeg * 10000, 57296)

Degrees(a) == TDiv(a * 57296, 10000)

---------------------------------------------------------------------------
(* Geometry and constants, app.py lines 9-16 *)

g == 9810

rim_width == 1040

rim_height == 1830

cargo_radius == 75

\* 0.5 * air_density * cargo_area * drag_coeff / cargo_mass, in 1e-8 / mm
drag_per_mass == 1185

---------------------------------------------------------------------------
(* Flight simulator *)

\* flight_model(t, s): the derivative [dx, dvx, dy, dvy]
flight_model(st) ==
    LET vx == st[2]
        vy == st[4]
        v_squared == vx * vx + vy * vy
        v == ISqrt(v_squared)
    IN  IF v = 0
        THEN \* vy / v and vx / v are 0/0
             <<vx, NaN, vy, NaN>>
        ELSE LET sin_component == TDiv(vy * 1000, v)
                 cos_component == TDiv(vx * 1000, v)
                 Fd_per_mass == TDiv(TDiv(v_squared, 10000) * drag_per_mass, 10000)
                 dvx == -TDiv(Fd_per_mass * cos_component, 1000)
                 dvy == -TDiv(Fd_per_mass * sin_component, 1000) - g
             IN  <<vx, dvx, vy, dvy>>

HasNaN(f) == \E i \in 1..4 : f[i] = NaN

hit_ground(st) == st[3]

hit_rim(st) ==
    LET dist_to_rim == Min(st[1] - (-(rim_width \div 2)), -(st[3] - rim_height))
    IN  dist_to_rim + cargo_radius

passed_rim(st) == st[1] - rim_width \div 2

\* events=[hit_ground, hit_rim, passed_rim]
events == <<"hit_ground", "hit_rim", "passed_rim">>

EventNames == {events[i] : i \in 1..Len(events)}

EventValue(e, st) ==
    CASE e = "hit_ground" -> hit_ground(st)
      [] e = "hit_rim"    -> hit_rim(st)
      [] e = "passed_rim" -> passed_rim(st)

TerminalUnset(e) == FALSE

\* hit_ground.terminal = hit_rim.terminal = passed_rim.terminal = True
Terminal(e) == TRUE

t_bound_short == 250 + 250

\* t_span = (0, 5.0)
t_bound == 5000

\* max_step=0.05
max_step == 50

\* solve_ivp's sign test between the two ends of a step (direction 0)
Crossed(g_old, g_new) ==
    \/ g_old <= 0 /\ g_new >= 0
    \/ g_old >= 0 /\ g_new <= 0

ActiveEvents(a, b) ==
    {e \in EventNames : Crossed(EventValue(e, a), EventValue(e, b))}

\* one explicit integration step of length hh from st
RKStep(st, hh) ==
    LET f == flight_model(st)
    IN  [i \in 1..4 |-> st[i] + TDiv(f[i] * hh, 1000)]

\* the solver's dense output between the two ends of a step
DenseOutput(a, b, hh, th) ==
    [i \in 1..4 |-> a[i] + TDiv((b[i] - a[i]) * th, hh)]

RECURSIVE FirstCross(_, _, _, _, _)
FirstCross(e, a, b, hh, th) ==
    IF th >= hh \/ Crossed(EventValue(e, a), EventValue(e, DenseOutput(a, b, hh, th)))
    THEN th
    ELSE FirstCross(e, a, b, hh, th + 1)

\* the root of event e within the step, as an offset from its start
EventRoot(e, a, b, hh) == FirstCross(e, a, b, hh, 0)

ClassifyInclusive(x) ==
    IF x < -(rim_width \div 2) THEN -1
    ELSE IF x >= rim_width \div 2 - cargo_radius THEN 1
    ELSE 0

\* try_shot lines 111-115
Classify(x) ==
    IF x < -(rim_width \div 2) THEN -1
    ELSE IF x > rim_width \div 2 - cargo_radius THEN 1
    ELSE 0

\* try_shot lines 111-121, given solution.y
TryShotReturn(y) ==
    [result |-> Classify(y[Len(y)][1]),
     x |-> [i \in 1..Len(y) |-> y[i][1]],
     y |-> [i \in 1..Len(y) |-> y[i][3]]]

NotReturned == [result |-> 0, x |-> <<>>, y |-> <<>>]

\* the request bodies of /api/calculate_trajectory that are explored
Scenario == <<-3000, 6000, 500, 7000>>

ShotStates ==
    { Scenario,
      <<-3000, 3000, 500, 3000>>,     \* falls short
      <<-3000, 6000, 500, 4000>>,     \* strikes the near face of the rim
      <<-3000, 3000, 500, 6500>>,     \* drops into the aperture
      <<-3000, 4500, 500, 5500>>,
      <<-3000, 3000, 500, 7000>>,     \* reaches the rim and the target plane in one step
      <<-600, 1000, 1890, 1000>>,
      <<445, 0, 500, -1000>>,         \* lands exactly at rim_width/2 - cargo_radius
      <<446, 0, 500, -1000>>,
      <<1000, -3000, 500, 2000>>,     \* comes back through the target plane
      <<-3000, 0, 0, 5000>>,          \* starts on the ground
      <<-3000, 0, -100, -1000>>,      \* below the ground: no event ever fires
      <<-3000, 0, 500, 0>>,           \* at rest
      <<0, 0, 0, 0>> }

StepSizes == {max_step \div 2, max_step}

---------------------------------------------------------------------------
(* The angular speed space: get_ang_speed_space *)

Sign(v) == IF v > 0 THEN 1 ELSE IF v < 0 THEN -1 ELSE 0

get_speed_func_squared_flat(startpt, endpt, a) ==
    LET dx == endpt[1] - startpt[1]
        den == startpt[2] - endpt[2]
        A == MulDiv(dx * dx, 100000, Cos(a))
        B == IF den = 0 THEN NaN ELSE MulDiv(A, g \div 2, den)
    IN  IF den = 0 THEN (IF dx = 0 THEN NaN ELSE PosInf)
        ELSE MulDiv(B, 1000, Cos(a))

\* (0.5 * g / (y0 - y1 + (x1 - x0) * tan(a))) * ((x1 - x0) / cos(a)) ** 2,
\* in (cm/s)^2; a in 1e-4 rad
get_speed_func_squared(startpt, endpt, a) ==
    LET x0 == startpt[1]
        y0 == startpt[2]
        x1 == endpt[1]
        y1 == endpt[2]
        dx == x1 - x0
        den == y0 - y1 + MulDiv(dx, Tan(a), 10000)
        A == MulDiv(dx * dx, 100000, Cos(a))
        B == IF den = 0 THEN NaN ELSE MulDiv(A, g \div 2, den)
    IN  IF den = 0 THEN (IF dx = 0 THEN NaN ELSE PosInf)
        ELSE MulDiv(B, 1000, Cos(a))

\* the end points handed to get_speed_func_squared for f_far_squared and
\* f_near_squared
FarTarget == <<rim_width \div 2, rim_height>>

NearTarget == <<-(rim_width \div 2), rim_height>>

f_far_squared(xpos, ypos, a) == get_speed_func_squared(<<xpos, ypos>>, FarTarget, a)

f_near_squared(xpos, ypos, a) == get_speed_func_squared(<<xpos, ypos>>, NearTarget, a)

f_far(xpos, ypos, a) == FSqrt(f_far_squared(xpos, ypos, a))

f_near(xpos, ypos, a) == FSqrt(f_near_squared(xpos, ypos, a))

f_diff(xpos, ypos, a) == FSub(f_far(xpos, ypos, a), f_near(xpos, ypos, a))

\* fsolve works on the angles -MaxAngle..MaxAngle, cut into cells of 0.01 rad;
\* cell k is [k/100, (k+1)/100]
CellMax == MaxAngle \div 100

NoCell == -CellMax - 1

Cells == (-CellMax)..(CellMax - 1)

\* the function f itself; the comparison makes TLC compute its values once
Tabulate(f) == IF f = f THEN f ELSE f

\* the two curves at the ends of the cells
NodeValues(xpos, ypos) ==
    [k \in (-CellMax)..CellMax |->
        <<f_far_squared(xpos, ypos, 100 * k), f_near_squared(xpos, ypos, 100 * k)>>]

\* what fsolve can learn of f_squared_diff on cell k from the values v at its
\* ends: whether it is continuous there (both curves finite, neither changing
\* sign), whether it changes sign, and where
Cell(v, k) ==
    LET fa == v[k][1]
        fb == v[k + 1][1]
        na == v[k][2]
        nb == v[k + 1][2]
        cont == /\ IsFinite(fa) /\ IsFinite(fb) /\ IsFinite(na) /\ IsFinite(nb)
                /\ Sign(fa) * Sign(fb) >= 0
                /\ Sign(na) * Sign(nb) >= 0
        da == FSub(fa, na)    \* f_squared_diff at the two ends
        db == FSub(fb, nb)
        bracket == /\ cont
                   /\ IsFinite(da) /\ IsFinite(db)
                   /\ Crossed(da, db)
    IN  [cont |-> cont,
         bracket |-> bracket,
         root |-> IF bracket /\ Abs(da) + Abs(db) > 0
                  THEN LET scale == (Abs(da) + Abs(db)) \div 1000000 + 1
                       IN  100 * k + (100 * (Abs(da) \div scale)) \div ((Abs(da) + Abs(db)) \div scale)
                  ELSE 100 * k]

\* the cell with a sign change that is next to cell k0, among those the
\* iteration reaches from k0 with f_squared_diff continuous all the way
NearestCell(c, k0) ==
    LET reach == {k \in Cells : /\ c[k].bracket
                                /\ \A j \in Cells : (Min(k, k0) <= j /\ j <= Max(k, k0)) => c[j].cont}
    IN  IF reach = {} THEN NoCell
        ELSE CHOOSE k \in reach :
                \A j \in reach : \/ Abs(k - k0) < Abs(j - k0)
                                 \/ Abs(k - k0) = Abs(j - k0) /\ k <= j

\* fsolve(f_squared_diff, x0)[0]: the root next to x0 when the iteration can
\* reach one without crossing a pole; otherwise the iteration does not
\* converge and ends at x0 or at any root beyond
fsolve(xpos, ypos, x0) ==
    LET v == Tabulate(NodeValues(xpos, ypos))
        c == Tabulate([k \in Cells |-> Cell(v, k)])
        k0 == NearestCell(c, x0 \div 100)
    IN  IF k0 # NoCell THEN {c[k0].root}
        ELSE {x0} \cup {c[k].root : k \in {j \in Cells : c[j].bracket}}

\* the number of panels of the quadrature rule
QuadPanels == 8

RECURSIVE QuadSum(_, _, _, _, _)
QuadSum(xpos, ypos, lo, hi, k) ==
    IF k = 0 THEN 0
    ELSE FAdd(QuadSum(xpos, ypos, lo, hi, k - 1),
              f_diff(xpos, ypos, lo + TDiv((hi - lo) * (2 * k - 1), 2 * QuadPanels)))

\* quad(f_diff, ang_lower_bound, ang_upper_bound)[0]: the signed integral
quad(xpos, ypos, lo, hi) == MulDiv(QuadSum(xpos, ypos, lo, hi, QuadPanels), hi - lo, QuadPanels)

\* np.linspace(start, stop, num): both ends included
linspace(first, last, num) ==
    [i \in 1..num |-> first + TDiv((last - first) * (i - 1), num - 1)]

\* ang_lower_bound = max(intersection, radians(5))
AngLowerBound(intersection) == Max(intersection, Radians(5000))

\* ang_upper_bound = radians(85)
AngUpperBound == Radians(85000)

\* lines 36-50 of get_ang_speed_space, given the intersection fsolve found
get_ang_speed_space(xpos, ypos, intersection) ==
    LET ang_lower_bound == AngLowerBound(intersection)
        ang_upper_bound == AngUpperBound
        area == quad(xpos, ypos, ang_lower_bound, ang_upper_bound)
        angles == linspace(Degrees(ang_lower_bound), Degrees(ang_upper_bound), 50)
    IN  [area |-> area,
         angles |-> angles,
         lower_bound |-> [i \in 1..50 |-> f_near(xpos, ypos, Radians(angles[i]))],
         upper_bound |-> [i \in 1..50 |-> f_far(xpos, ypos, Radians(angles[i]))]]

\* the local variables of get_ang_speed_space
AngLocals(intersection) ==
    [intersection |-> intersection,
     ang_lower_bound |-> AngLowerBound(intersection),
     ang_upper_bound |-> AngUpperBound,
     far |-> FarTarget,
     near |-> NearTarget]

NoLocals == AngLocals(AngUpperBound)

NoAngData == [area |-> 0, angles |-> <<>>, lower_bound |-> <<>>, upper_bound |-> <<>>]

---------------------------------------------------------------------------
(* The heat map: generate_heatmap *)

\* np.arange(start, stop, step): stop excluded
arange(first, last, step) ==
    [i \in 1..((last - first + step - 1) \div step) |-> first + (i - 1) * step]

\* x_range = np.arange(-6, -1, 0.2)
x_range == arange(-6000, -1000, 200)

\* y_range = np.arange(0.2, 1.25, 0.2)
y_range == arange(200, 1250, 200)

HeatCellUnweighted(area_data, x) == area_data.area

\* area_data['area'] * np.arctan2(rim_width, abs(x_range[xi]))
HeatCellValue(area_data, x) == MulDiv(area_data.area, Arctan2(rim_width, Abs(x)), 10000)

---------------------------------------------------------------------------
(* The three programs *)

ShotIdle ==
    /\ s0 = <<0, 0, 0, 0>>
    /\ h = max_step
    /\ t = 0
    /\ s = s0
    /\ sol = <<>>
    /\ pc = "idle"
    /\ stop = "none"
    /\ ret = NotReturned

AngIdle ==
    /\ ang_pc = "idle"
    /\ ang_req = <<0, 0>>
    /\ ang_locals = NoLocals
    /\ ang_ret = NoAngData

HeatIdle ==
    /\ heat_pc = "idle"
    /\ xi = 0
    /\ yi = 0
    /\ row = <<>>
    /\ area_grid = <<>>
    /\ written = <<>>

ShotInit ==
    /\ AngIdle
    /\ HeatIdle
    /\ s0 \in ShotStates
    /\ h \in StepSizes
    /\ t = 0
    /\ s = s0
    /\ sol = <<s0>>
    /\ pc = "running"
    /\ stop = "none"
    /\ ret = NotReturned

StepLen == Min(h, t_bound - t)

TerminalActive(a, b) == {e \in ActiveEvents(a, b) : Terminal(e)}

\* a step no terminal event ends, before t_bound
SolverStep ==
    /\ pc = "running"
    /\ ~HasNaN(flight_model(s))
    /\ LET s_new == RKStep(s, StepLen)
       IN  /\ TerminalActive(s, s_new) = {}
           /\ t + StepLen < t_bound
           /\ t' = t + StepLen
           /\ s' = s_new
           /\ sol' = Append(sol, s_new)
    /\ UNCHANGED <<s0, h, pc, stop, ret, ang_vars, heat_vars>>

\* the step that reaches t_bound with no terminal event: status 0, try_shot returns
SolverFinish ==
    /\ pc = "running"
    /\ ~HasNaN(flight_model(s))
    /\ LET s_new == RKStep(s, StepLen)
       IN  /\ TerminalActive(s, s_new) = {}
           /\ t + StepLen >= t_bound
           /\ t' = t + StepLen
           /\ s' = s_new
           /\ sol' = Append(sol, s_new)
           /\ ret' = TryShotReturn(Append(sol, s_new))
    /\ pc' = "done"
    /\ stop' = "t_bound"
    /\ UNCHANGED <<s0, h, ang_vars, heat_vars>>

\* a step in which a terminal event fires: the earliest root ends the run,
\* status 1, try_shot returns
SolverEvent ==
    /\ pc = "running"
    /\ ~HasNaN(flight_model(s))
    /\ LET s_new == RKStep(s, StepLen)
           active == TerminalActive(s, s_new)
       IN  /\ active # {}
           /\ \E e \in active :
                LET root == EventRoot(e, s, s_new, StepLen)
                    y == DenseOutput(s, s_new, StepLen, root)
                IN  /\ \A e2 \in active : root <= EventRoot(e2, s, s_new, StepLen)
                    /\ \A e2 \in active :
                         EventRoot(e2, s, s_new, StepLen) = root
                            => \E i, j \in 1..Len(events) :
                                  events[i] = e /\ events[j] = e2 /\ i <= j
                    /\ stop' = e
                    /\ t' = t + root
                    /\ s' = y
                    /\ sol' = Append(sol, y)
                    /\ ret' = TryShotReturn(Append(sol, y))
    /\ pc' = "done"
    /\ UNCHANGED <<s0, h, ang_vars, heat_vars>>

\* the derivative is NaN: every trial step is rejected until the step size
\* underflows; status -1, try_shot returns what was recorded
SolverFailed ==
    /\ pc = "running"
    /\ HasNaN(flight_model(s))
    /\ pc' = "done"
    /\ stop' = "failed"
    /\ ret' = TryShotReturn(sol)
    /\ UNCHANGED <<s0, h, t, s, sol, ang_vars, heat_vars>>

\* the derivative at the initial state is NaN and so is the initial step
\* size: no trial step is ever accepted or abandoned
SolverHung ==
    /\ pc = "running"
    /\ t = 0
    /\ HasNaN(flight_model(s))
    /\ pc' = "hung"
    /\ UNCHANGED <<s0, h, t, s, sol, stop, ret, ang_vars, heat_vars>>

ShotNext == SolverStep \/ SolverFinish \/ SolverEvent \/ SolverFailed \/ SolverHung

SpecShot == ShotInit /\ [][ShotNext]_vars

\* the request bodies of /api/calculate_ang_speed that are explored
LaunchXs == {-6000, -4000, -3000, -2000, -1200, -700, -675, -640, -520, 0, 520, 3000}

LaunchYs == {200, 500, 800, 1000, 1200, 1500, 1830, 2000, 2500}

AngInit ==
    /\ ShotIdle
    /\ HeatIdle
    /\ ang_pc = "called"
    /\ ang_req \in LaunchXs \X LaunchYs
    /\ ang_locals = NoLocals
    /\ ang_ret = NoAngData

\* calculate_ang_speed: one call of get_ang_speed_space, which returns for
\* every launch point
CalculateAngSpeed ==
    /\ ang_pc = "called"
    /\ \E intersection \in fsolve(ang_req[1], ang_req[2], Radians(85000)) :
          /\ ang_locals' = AngLocals(intersection)
          /\ ang_ret' = get_ang_speed_space(ang_req[1], ang_req[2], intersection)
    /\ ang_pc' = "returned"
    /\ UNCHANGED <<ang_req, shot_vars, heat_vars>>

AngNext == CalculateAngSpeed

SpecAng == AngInit /\ [][AngNext]_vars

HeatInit ==
    /\ ShotIdle
    /\ AngIdle
    /\ heat_pc = "loop"
    /\ xi = 0
    /\ yi = 0
    /\ row = <<>>
    /\ area_grid = <<>>
    /\ written = <<>>

\* one pass of the inner loop: lines 161-164
HeatCell ==
    /\ heat_pc = "loop"
    /\ xi < Len(x_range)
    /\ yi < Len(y_range)
    /\ \E intersection \in fsolve(x_range[xi + 1], y_range[yi + 1], Radians(85000)) :
          LET area_data == get_ang_speed_space(x_range[xi + 1], y_range[yi + 1], intersection)
              area == HeatCellValue(area_data, x_range[xi + 1])
          IN  row' = Append(row, area)
    /\ written' = Append(written, <<xi, yi>>)
    /\ yi' = yi + 1
    /\ UNCHANGED <<heat_pc, xi, area_grid, shot_vars, ang_vars>>

\* the end of the inner loop: line 165 and the next row = []
HeatRowDone ==
    /\ heat_pc = "loop"
    /\ xi < Len(x_range)
    /\ yi = Len(y_range)
    /\ area_grid' = Append(area_grid, row)
    /\ row' = <<>>
    /\ xi' = xi + 1
    /\ yi' = 0
    /\ UNCHANGED <<heat_pc, written, shot_vars, ang_vars>>

\* the end of the outer loop: lines 167-171
HeatReturn ==
    /\ heat_pc = "loop"
    /\ xi = Len(x_range)
    /\ heat_pc' = "returned"
    /\ UNCHANGED <<xi, yi, row, area_grid, written, shot_vars, ang_vars>>

HeatNext == HeatCell \/ HeatRowDone \/ HeatReturn

SpecHeat == HeatInit /\ [][HeatNext]_vars

---------------------------------------------------------------------------
(* Properties of the flight simulator *)

FinalX == ret.x[Len(ret.x)]

\* C1: the outcome code is decided by the final recorded x alone: -1 below
\* -rim_width/2, 1 above rim_width/2 - cargo_radius, 0 in between, the
\* boundary rim_width/2 - cargo_radius itself giving 0.
C1_OutcomeByFinalX ==
    pc = "done" =>
        /\ ret.result \in {-1, 0, 1}
        /\ ret.result = -1 <=> FinalX < -520
        /\ ret.result = 1 <=> FinalX > 520 - 75
        /\ ret.result = 0 <=> (FinalX >= -520 /\ FinalX <= 445)

C1_Witness == pc = "done" /\ FinalX = 445 /\ ret.result = 0

\* the length of the step that produced sample n (every earlier step is a full h)
LastStepLen(n) == Min(h, t_bound - (n - 2) * h)

C3_ScenarioTerminates ==
    s0 = Scenario =>
        /\ pc # "hung"
        /\ t < 5000
        /\ pc = "running" => ~HasNaN(flight_model(s))    \* the solver can step
        /\ pc = "done" =>
              /\ stop \in EventNames
              /\ Len(ret.x) > 0
              /\ Len(ret.x) = Len(ret.y)
              /\ Len(ret.x) = Len(sol)
              /\ ret.result \in {-1, 0, 1}

C3_Witness ==
    s0 = Scenario /\ pc = "done" /\ stop = "passed_rim" /\ ret.result = 1

\* C6: at zero speed the derivative is defined (no drag, gravity alone), and no
\* NaN reaches the returned path.
C6_ZeroSpeedGuarded ==
    /\ (s[2] = 0 /\ s[4] = 0) => flight_model(s) = <<0, 0, 0, -g>>
    /\ \A i \in 1..Len(ret.x) : ret.x[i] # NaN /\ ret.y[i] # NaN

\* C10: a run stopped by the passed-target-plane event is an overshoot, and a
\* result of 0 comes only from a run ended by ground impact, by the rim
\* collision or by the end of the time span.
C10_PassedPlaneIsOvershoot ==
    pc = "done" =>
        /\ stop = "passed_rim" => ret.result = 1
        /\ ret.result = 0 => stop \in {"hit_ground", "hit_rim", "t_bound"}

---------------------------------------------------------------------------
(* Properties of the angular speed space *)

\* C4: a call whose clamped window is inverted (lower = max(intersection, 5
\* degrees) above upper = 85 degrees) does not return; every result returned
\* has lower <= upper, both in [0, pi/2).
C4_InvertedWindowRejected ==
    ang_pc = "returned" =>
        /\ ang_locals.ang_lower_bound <= ang_locals.ang_upper_bound
        /\ 0 <= ang_locals.ang_lower_bound
        /\ ang_locals.ang_upper_bound < 15708
        /\ ang_ret.angles[1] <= ang_ret.angles[Len(ang_ret.angles)]

\* the launch angles of the returned curves, in 1e-4 rad
SweptAngles == {Radians(ang_ret.angles[i]) : i \in 1..Len(ang_ret.angles)}

\* C8 as stated: from x = 0 the near-edge and the far-edge required speeds
\* squared are the same at every swept launch angle.
C8_CurvesIdentical ==
    (ang_pc = "returned" /\ ang_req[1] = 0) =>
        \A a \in SweptAngles :
            f_near_squared(0, ang_req[2], a) = f_far_squared(0, ang_req[2], a)

\* C8: from x = 0 the two required-speed functions are mirror images of each
\* other, v2_near(-a) = v2_far(a), and at every swept launch angle they
\* differ.
C8_CurvesMirrored ==
    (ang_pc = "returned" /\ ang_req[1] = 0) =>
        \A a \in SweptAngles :
            /\ f_near_squared(0, ang_req[2], -a) = f_far_squared(0, ang_req[2], a)
            /\ f_near_squared(0, ang_req[2], a) # f_far_squared(0, ang_req[2], a)

C8_Witness ==
    /\ ang_pc = "returned"
    /\ ang_req[1] = 0
    /\ \E a \in SweptAngles :
          IsFinite(f_far_squared(0, ang_req[2], a)) /\ f_far_squared(0, ang_req[2], a) > 0

\* C9: the near target is the aperture edge on the side of the launch point
\* and the far target the other one: the -rim_width/2 edge is near for
\* x < 0, the +rim_width/2 edge for x > 0.
C9_NearIsCloserEdge ==
    ang_pc = "returned" =>
        /\ ang_req[1] < 0 =>
              ang_locals.near = <<-520, 1830>> /\ ang_locals.far = <<520, 1830>>
        /\ ang_req[1] > 0 =>
              ang_locals.near = <<520, 1830>> /\ ang_locals.far = <<-520, 1830>>

---------------------------------------------------------------------------
(* Properties of the heat map *)

\* C7: the grid returned has one row per value of x_range and one entry per
\* value of y_range in each row; entry (i, j) is the area of the angular speed
\* space at (x_range[i], y_range[j]) times arctan2(rim_width, |x_range[i]|);
\* the cells are written once each, rows in the order of x_range and entries
\* in the order of y_range.
C7_GridRowMajor ==
    /\ \A k \in 1..Len(written) :
          written[k] = <<(k - 1) \div Len(y_range), (k - 1) % Len(y_range)>>
    /\ heat_pc = "returned" =>
          /\ Len(written) = Len(x_range) * Len(y_range)
          /\ Len(area_grid) = Len(x_range)
          /\ \A i \in 1..Len(x_range) :
                /\ Len(area_grid[i]) = Len(y_range)
                /\ \A j \in 1..Len(y_range) :
                      \E a \in fsolve(x_range[i], y_range[j], Radians(85000)) :
                          area_grid[i][j] =
                              MulDiv(get_ang_speed_space(x_range[i], y_range[j], a).area,
                                     Arctan2(1040, Abs(x_range[i])), 10000)

C7_Witness ==
    /\ heat_pc = "returned"
    /\ Len(area_grid) = 25
    /\ Len(area_grid[25]) = 6
    /\ x_range[25] = -1200
    /\ y_range[6] = 1200
    /\ IsFinite(area_grid[25][6])
    /\ area_grid[25][6] > 0

===========================================================================
